---- MODULE Spec2Model ----
(***************************************************************************)
(* A model of llmix's session/queue engine (src/session/session_manager.py)*)
(* with the placement arbiter (src/llm/providers/musicassistant.py) and    *)
(* the catalog provider (src/music/providers/spotify_provider.py) it calls.*)
(* and of the OAuth2 authorization flow (src/music/auth/oauth2_server.py). *)
(*                                                                         *)
(* Python objects are modelled as records, lists as sequences, sets as     *)
(* sets.  A call that raises is modelled by the name of the exception as   *)
(* the call's outcome; the state it had changed before raising stays.      *)
(***************************************************************************)
EXTENDS Integers, Sequences, FiniteSets, TLC

(***************************************************************************)
(* Bounds of the model.                                                    *)
(***************************************************************************)
MaxSessions == 1        \* sessions the registry may hold
MaxQueueLen == 3        \* items a session queue may hold
MaxNeg == 1             \* positions are drawn from -MaxNeg .. MaxQueueLen
NumThreads == 2         \* threads that call into one SessionManager
ConcMaxLen == 2         \* items the queue the threads share may hold
MaxPlaylists == 2       \* playlists the user may have at the catalog
MaxUris == 250          \* uris one add_tracks_to_playlist call may carry,
                        \* and tracks a remote playlist may hold
MaxRequests == 3        \* requests the OAuth listener may receive
MaxCreations == 2       \* sessions the threads of the registry may create
PairMaxLen == 2         \* items a queue of the two-session registry may hold

UserIds == {"alice", "bob"}
TrackIds == {"T1", "T2"}
SessionNames == {"party"}
SessionIds == 1..MaxSessions
UnknownSid == MaxSessions + 1   \* an id create_session never handed out
Positions == (0 - MaxNeg)..MaxQueueLen
ThreadIds == 1..NumThreads

NoTrack == "-"
UnknownTrack == "T?"    \* a track identifier no queue and no request carries

(***************************************************************************)
(* Outcomes of a call: what it returned, or the exception it raised.       *)
(***************************************************************************)
Raised ==
  {"KeyError", "AttributeError", "IndexError", "ValueError", "APIError",
   "HTTPError"}

(***************************************************************************)
(* The objects the callers hand in.  A User is its user_id and the state   *)
(* of user.connections['spotify']: absent, a token without the `info`      *)
(* attribute (UserToken as components.py declares it), or a token carrying *)
(* it.  A Track is its track_id; it carries the `uri` attribute that       *)
(* SpotifyProvider._create_track gives every track it builds.              *)
(***************************************************************************)
Connections == {"none", "token", "token_info"}
User(user_id, conn) == [user_id |-> user_id, spotify |-> conn]
Track(track_id) == [track_id |-> track_id]

VARIABLES
  sessions,   \* SessionManager.sessions: the dict session id -> Session
  remote,     \* the catalog provider's playlists of the user, in list order
  last,       \* the last call: operation, arguments, outcome
  threads,    \* per thread: the call it is inside, its position in the
              \* call's code and the call's local variables
  http,       \* the requests the catalog provider sent during the last call
  oauth,      \* OAuth2Server: auth_tokens, the listener, the blocked caller
  users       \* UserManager.users, by username

vars == <<sessions, remote, last, threads, http, oauth, users>>

(***************************************************************************)
(* QueueItem(track, requested_by, position) with votes = set()             *)
(***************************************************************************)
QueueItem(track, requested_by, position) ==
  [track |-> track, requested_by |-> requested_by, votes |-> {},
   position |-> position]

\* queue_item.votes.add(user_id)
VotesAdd(item, user_id) == [item EXCEPT !.votes = @ \cup {user_id}]

\* queue_item.votes.discard(user_id)
VotesDiscard(item, user_id) == [item EXCEPT !.votes = @ \ {user_id}]

(***************************************************************************)
(* Python list operations on a queue.  Python indexes from 0, sequences    *)
(* from 1.                                                                 *)
(***************************************************************************)
ListAppend(queue, item) == Append(queue, item)

\* list.pop(i) accepts -len <= i < len and counts a negative i from the end
PopIndexOk(queue, i) == (0 - Len(queue)) <= i /\ i < Len(queue)

PopIndex(queue, i) == IF i < 0 THEN Len(queue) + i ELSE i

\* a pop that takes the tail whatever the index (list.pop() without the index)
ListPop_tail(queue, i) ==
  [j \in 1..(Len(queue) - 1) |-> queue[j]]

ListPop(queue, i) ==
  LET k == PopIndex(queue, i) + 1
  IN  [j \in 1..(Len(queue) - 1) |-> IF j < k THEN queue[j] ELSE queue[j + 1]]

\* a vote_track whose upvote toggles: a second upvote takes the vote back
vote_track_toggle(queue, user_id, queue_position, upvote) ==
  IF 0 <= queue_position /\ queue_position < Len(queue)
  THEN [result |-> "True",
        queue |-> [queue EXCEPT ![queue_position + 1] =
                     IF upvote /\ user_id \notin @.votes
                     THEN VotesAdd(@, user_id)
                     ELSE VotesDiscard(@, user_id)]]
  ELSE [result |-> "False", queue |-> queue]

\* a vote_track without the lower bound of its check: a negative position
\* indexes the list from its end, or raises IndexError beyond it
vote_track_no_lower_bound(queue, user_id, queue_position, upvote) ==
  IF queue_position < Len(queue)
  THEN IF PopIndexOk(queue, queue_position)
       THEN [result |-> "True",
             queue |-> [queue EXCEPT ![PopIndex(queue, queue_position) + 1] =
                          IF upvote THEN VotesAdd(@, user_id)
                          ELSE VotesDiscard(@, user_id)]]
       ELSE [result |-> "IndexError", queue |-> queue]
  ELSE [result |-> "False", queue |-> queue]

\* Session.vote_track: what it returns and the queue afterwards
vote_track(queue, user_id, queue_position, upvote) ==
  IF 0 <= queue_position /\ queue_position < Len(queue)
  THEN [result |-> "True",
        queue |-> [queue EXCEPT ![queue_position + 1] =
                     IF upvote THEN VotesAdd(@, user_id)
                     ELSE VotesDiscard(@, user_id)]]
  ELSE [result |-> "False", queue |-> queue]

\* a renumbering that was left out
update_queue_positions_skipped(queue) == queue

\* SessionManager._update_queue_positions
update_queue_positions(queue) ==
  [j \in 1..Len(queue) |-> [queue[j] EXCEPT !.position = j - 1]]

\* SessionManager.remove_track on an existing session: what it returns (or
\* raises) and the queue afterwards
remove_track(queue, position) ==
  IF position >= Len(queue) THEN [result |-> "False", queue |-> queue]
  ELSE IF ~PopIndexOk(queue, position)
  THEN [result |-> "IndexError", queue |-> queue]
  ELSE [result |-> "True",
        queue |-> update_queue_positions(ListPop(queue, position))]

(***************************************************************************)
(* The placement arbiter.  A reply of the language model to one placement  *)
(* prompt: the API call fails, the model answers in text, or it asks for   *)
(* set_playlist_track_order(playlist_id, track_sequence, insert_at_track)  *)
(* with the candidate as the sequence and a track to insert it at.         *)
(***************************************************************************)
\* NoReply: the arbiter was not asked
ArbiterReplies ==
  {[kind |-> "api_error", insert_at_track |-> NoTrack],
   [kind |-> "text", insert_at_track |-> NoTrack]}
  \cup {[kind |-> "function_call", insert_at_track |-> t] :
          t \in TrackIds \cup {UnknownTrack}}

NoReply == [kind |-> "none", insert_at_track |-> NoTrack]

\* OpenAIMusicAssistant.process_message: the first completions.create is
\* outside the try and raises to the caller; a function call is executed
\* inside the try, whose except turns any exception into an error string.
\* BaseMusic.set_playlist_track_order is the only implementation of the
\* requested function and has an empty body.
process_message(reply) ==
  IF reply.kind = "api_error" THEN "APIError" ELSE "str"

\* the prompt of _evaluate_track_placement reads
\* user.connections['spotify'].info['id']: the exception that raises, or "ok"
placement_prompt(user) ==
  IF user.spotify = "none" THEN "KeyError"
  ELSE IF user.spotify = "token" THEN "AttributeError"
  ELSE "ok"

\* SessionManager._evaluate_track_placement: builds the prompt, asks the
\* arbiter and drops its response; the function returns None.
evaluate_track_placement(new_track, user, reply) ==
  IF placement_prompt(user) \in Raised THEN placement_prompt(user)
  ELSE IF process_message(reply) \in Raised THEN process_message(reply)
  ELSE "None"

\* the item add_track_request builds before it asks the arbiter
add_track_request_item(queue, new_track, user) ==
  VotesAdd(QueueItem(new_track.track_id, user.user_id, Len(queue)),
           user.user_id)

\* SessionManager.add_track_request on an existing session: what it returns
\* (or raises) and the queue afterwards.  The function ends without a
\* return statement after the append: it returns None.
add_track_request(queue, new_track, user, reply) ==
  IF evaluate_track_placement(new_track, user, reply) \in Raised
  THEN [result |-> evaluate_track_placement(new_track, user, reply),
        queue |-> queue]
  ELSE [result |-> "None",
        queue |-> ListAppend(queue,
                    add_track_request_item(queue, new_track, user))]

(***************************************************************************)
(* The catalog provider (SpotifyProvider).  `remote` is the service's      *)
(* state: the user's playlists in the order GET /me/playlists lists them,  *)
(* each with its id, name and tracks.  A request the provider sends is     *)
(* recorded as its method, its path, the playlist it addresses and the     *)
(* uris it carries.                                                        *)
(***************************************************************************)
Request(method, path, playlist, uris) ==
  [method |-> method, path |-> path, playlist |-> playlist, uris |-> uris]

NoPlaylist == 0

\* a decorator that lets every user through
require_user_connection_off(user) == TRUE

\* the check of the decorator _require_user_connection
require_user_connection(user) == user.spotify # "none"

\* what an operation that sends the one request `req` returns (or raises)
\* and sends; `fails` is whether requests.request or raise_for_status
\* raises, which _make_request logs and raises again
make_request(req, fails, returns) ==
  [result |-> IF fails THEN "HTTPError" ELSE returns, requests |-> <<req>>]

\* the wrapper of _require_user_connection around an operation's outcome
guarded(user, outcome) ==
  IF require_user_connection(user) THEN outcome
  ELSE [result |-> "ValueError", requests |-> <<>>]

get_user_information(user, fails) ==
  guarded(user, make_request(Request("GET", "me", NoPlaylist, <<>>),
                             fails, "Dict"))

get_user_playlists(user, fails) ==
  guarded(user, make_request(Request("GET", "me/playlists", NoPlaylist, <<>>),
                             fails, "List"))

get_user_playlist(user, playlist_id, fails) ==
  guarded(user, make_request(Request("GET", "playlists/id", playlist_id, <<>>),
                             fails, "Dict"))

\* create_playlist reads user.connections['spotify'].info['id'] before it
\* sends anything; without the decorator's check the subscript raises
create_playlist(user, fails) ==
  guarded(user,
    IF user.spotify = "none"
    THEN [result |-> "KeyError", requests |-> <<>>]
    ELSE IF user.spotify = "token"
    THEN [result |-> "AttributeError", requests |-> <<>>]
    ELSE make_request(Request("POST", "users/id/playlists", NoPlaylist, <<>>),
                      fails, "Dict"))

reorder_playlist_tracks(user, playlist_id, fails) ==
  guarded(user, make_request(Request("PUT", "playlists/id/tracks", playlist_id,
                                     <<>>), fails, "None"))

play_user_playlist(user, playlist_id, fails) ==
  guarded(user, make_request(Request("PUT", "me/player/play", playlist_id,
                                     <<>>), fails, "None"))

pause_playback(user, fails) ==
  guarded(user, make_request(Request("PUT", "me/player/pause", NoPlaylist,
                                     <<>>), fails, "None"))

\* range(0, len(track_uris), 100): the step of the loop of
\* add_tracks_to_playlist, and the width of the slice track_uris[i:i + 100]
ChunkSize == 100

Min(a, b) == IF a <= b THEN a ELSE b

\* a slice that is one uri short
Chunk_short(track_uris, i) ==
  SubSeq(track_uris, i + 1, Min(i + ChunkSize - 1, Len(track_uris)))

\* track_uris[i:i + 100]
Chunk(track_uris, i) ==
  SubSeq(track_uris, i + 1, Min(i + ChunkSize, Len(track_uris)))

RECURSIVE add_tracks_loop_resume(_, _, _, _, _, _)
\* a loop that catches the failure of a chunk and goes on with the next one
add_tracks_loop_resume(playlist_id, track_uris, i, k, fail_at, acc) ==
  IF i >= Len(track_uris) THEN acc
  ELSE add_tracks_loop_resume(playlist_id, track_uris, i + ChunkSize, k + 1,
         fail_at,
         [result |-> "None",
          requests |-> acc.requests \o
            <<Request("POST", "playlists/id/tracks", playlist_id,
                      Chunk(track_uris, i))>>,
          applied |-> IF k = fail_at THEN acc.applied
                      ELSE acc.applied \o Chunk(track_uris, i)])

RECURSIVE add_tracks_loop(_, _, _, _, _, _)
\* the loop of add_tracks_to_playlist from offset i on; its k-th request is
\* the one to come, and request number fail_at raises out of _make_request
\* and so out of the loop.  acc: the requests sent so far and the uris the
\* service has added to the playlist
add_tracks_loop(playlist_id, track_uris, i, k, fail_at, acc) ==
  IF i >= Len(track_uris) THEN acc
  ELSE IF k = fail_at
       THEN [result |-> "HTTPError",
             requests |-> acc.requests \o
               <<Request("POST", "playlists/id/tracks", playlist_id,
                         Chunk(track_uris, i))>>,
             applied |-> acc.applied]
       ELSE add_tracks_loop(playlist_id, track_uris, i + ChunkSize, k + 1,
              fail_at,
              [result |-> "None",
               requests |-> acc.requests \o
                 <<Request("POST", "playlists/id/tracks", playlist_id,
                           Chunk(track_uris, i))>>,
               applied |-> acc.applied \o Chunk(track_uris, i)])

\* SpotifyProvider.add_tracks_to_playlist: what it returns (or raises), the
\* requests it sends and the uris the service has added
add_tracks_to_playlist(user, playlist_id, track_uris, fail_at) ==
  IF require_user_connection(user)
  THEN add_tracks_loop(playlist_id, track_uris, 0, 1, fail_at,
         [result |-> "None", requests |-> <<>>, applied |-> <<>>])
  ELSE [result |-> "ValueError", requests |-> <<>>, applied |-> <<>>]

(***************************************************************************)
(* The catalog: set_playlist and the seeding of create_session.            *)
(***************************************************************************)
\* a loop that takes no playlist for a match
set_playlist_scan_blind(playlists, target_playlist, i, acc) == acc

RECURSIVE set_playlist_scan(_, _, _, _)
\* the loop of set_playlist over the playlists from index i on: every
\* playlist of the name is fetched and adds its tracks, and the last one is
\* the target
set_playlist_scan(playlists, target_playlist, i, acc) ==
  IF i > Len(playlists) THEN acc
  ELSE IF playlists[i].name = target_playlist
       THEN set_playlist_scan(playlists, target_playlist, i + 1,
              [playlist_target |-> playlists[i].id,
               tracks |-> acc.tracks \o playlists[i].tracks,
               requests |-> acc.requests \o
                 <<Request("GET", "playlists/id", playlists[i].id, <<>>)>>])
       ELSE set_playlist_scan(playlists, target_playlist, i + 1, acc)

\* the id create_playlist's answer carries: one no playlist has yet
NewPlaylistId(playlists) == Len(playlists) + 1

\* SessionManager.set_playlist with a catalog that answers every request:
\* outcome, playlist, tracks, the requests sent, remote afterwards
set_playlist(playlists, user, target_playlist) ==
  LET found == set_playlist_scan(playlists, target_playlist, 1,
                 [playlist_target |-> NoPlaylist, tracks |-> <<>>,
                  requests |-> get_user_playlists(user, FALSE).requests])
      created == create_playlist(user, FALSE)
  IN  IF get_user_playlists(user, FALSE).result \in Raised
      THEN [result |-> get_user_playlists(user, FALSE).result,
            playlist |-> NoPlaylist, tracks |-> <<>>, requests |-> <<>>,
            remote |-> playlists]
      ELSE IF found.playlist_target # NoPlaylist
      THEN [result |-> "ok", playlist |-> found.playlist_target,
            tracks |-> found.tracks, requests |-> found.requests,
            remote |-> playlists]
      ELSE IF created.result \in Raised
      THEN [result |-> created.result, playlist |-> NoPlaylist,
            tracks |-> found.tracks, requests |-> found.requests,
            remote |-> playlists]
      ELSE [result |-> "ok", playlist |-> NewPlaylistId(playlists),
            tracks |-> found.tracks,
            requests |-> found.requests \o created.requests,
            remote |-> Append(playlists,
                         [id |-> NewPlaylistId(playlists),
                          name |-> target_playlist, tracks |-> <<>>])]

RECURSIVE seed_queue(_, _, _)
\* the seeding loop of create_session
seed_queue(queue, tracks, initiator) ==
  IF tracks = <<>> THEN queue
  ELSE seed_queue(
         ListAppend(queue,
           VotesAdd(QueueItem(Head(tracks), initiator.user_id, Len(queue)),
                    initiator.user_id)),
         Tail(tracks), initiator)

\* the Session create_session builds.  Of its fields the model keeps the
\* queue and the playlist; name, initiator, invited_users, playback_state
\* and theme_keywords are set here and changed by no operation on the queue.
Session(name, initiator, playlist, tracks) ==
  [playlist |-> playlist, queue |-> seed_queue(<<>>, tracks, initiator)]

\* uuid4(): an id no session has
FreshIds == SessionIds \ DOMAIN sessions

(***************************************************************************)
(* The record of the last call.                                            *)
(***************************************************************************)
\* user is the user_id handed in, with the state of the user's spotify
\* connection where the call was handed a User
Call(op, sid, track, user, position, upvote, reply, result, changed) ==
  [op |-> op, sid |-> sid, track |-> track, user |-> user,
   position |-> position, upvote |-> upvote, reply |-> reply,
   result |-> result, changed |-> changed, tick |-> 1 - last.tick]

NoUser == User("-", "-")
VoterOf(user_id) == User(user_id, "-")

\* no thread is inside a call
Idle == [pc |-> "idle"]

\* the listener handles no request
NoRequest == [path |-> "-", code |-> "-"]

\* OAuth2Server after __init__: no tokens, no listener, no caller inside
\* get_auth_tokens
NoFlow ==
  [auth_tokens |-> "None", server |-> "None", shutdown_request |-> FALSE,
   shutdown_threads |-> 0, handler |-> NoRequest, caller |-> "idle",
   result |-> "None", handled |-> 0, port |-> "free"]

\* the user's playlists when the program starts
InitRemotes ==
  { << [id |-> 1, name |-> "party", tracks |-> <<"T1">>],
       [id |-> 2, name |-> "party", tracks |-> <<"T2">>] >> }

Init ==
  /\ sessions = <<>>
  /\ remote \in InitRemotes
  /\ last = [op |-> "init", sid |-> 0, track |-> NoTrack, user |-> NoUser,
             position |-> 0, upvote |-> FALSE, reply |-> NoReply,
             result |-> "None", changed |-> FALSE, tick |-> 0]
  /\ threads = [t \in ThreadIds |-> Idle]
  /\ http = <<>>
  /\ oauth = NoFlow
  /\ users = {}

(***************************************************************************)
(* The operations of SessionManager and Session, one call each.            *)
(***************************************************************************)
\* every Session built with one list object as its queue
set_queue_shared(registry, sid, queue) ==
  [s \in DOMAIN registry |-> [registry[s] EXCEPT !.queue = queue]]

\* session.queue mutated in place: get_session hands out the Session object
\* of the registry, and each Session is built with a list of its own
set_queue(registry, sid, queue) ==
  [registry EXCEPT ![sid].queue = queue]

CreateSession(name, initiator) ==
  /\ FreshIds # {}
  /\ \E got \in {set_playlist(remote, initiator, name)} :
      /\ remote' = got.remote
      /\ http' = got.requests
      /\ UNCHANGED <<threads, oauth, users>>
      /\ IF got.result \in Raised
         THEN /\ UNCHANGED sessions
              /\ last' = Call("create_session", 0, NoTrack, initiator,
                              0, FALSE, NoReply, got.result, FALSE)
         ELSE LET sid == CHOOSE s \in FreshIds : \A o \in FreshIds : s <= o
              IN  /\ sessions' = [s \in DOMAIN sessions \cup {sid} |->
                         IF s = sid
                         THEN Session(name, initiator, got.playlist,
                                      got.tracks)
                         ELSE sessions[s]]
                  /\ last' = Call("create_session", sid, NoTrack,
                                  initiator, 0, FALSE, NoReply,
                                  "Session", TRUE)

AddTrackRequest(sid, new_track, user, reply) ==
  IF sid \notin DOMAIN sessions
  THEN /\ reply = NoReply
       /\ UNCHANGED <<sessions, remote, threads, oauth, users>>
       /\ http' = <<>>
       /\ last' = Call("add_track_request", sid, new_track.track_id,
                       user, 0, FALSE, NoReply, "False", FALSE)
  ELSE /\ Len(sessions[sid].queue) < MaxQueueLen
       /\ (placement_prompt(user) \in Raised) = (reply = NoReply)
       /\ \E got \in {add_track_request(sessions[sid].queue, new_track, user,
                                        reply)} :
           /\ sessions' = set_queue(sessions, sid, got.queue)
           /\ UNCHANGED <<remote, threads, oauth, users>>
           /\ http' = <<>>
           /\ last' = Call("add_track_request", sid, new_track.track_id,
                           user, 0, FALSE, reply, got.result,
                           got.queue # sessions[sid].queue)

VoteTrack(sid, user_id, queue_position, upvote) ==
  /\ sid \in DOMAIN sessions
  /\ \E got \in {vote_track(sessions[sid].queue, user_id, queue_position,
                            upvote)} :
      /\ sessions' = set_queue(sessions, sid, got.queue)
      /\ UNCHANGED <<remote, threads, oauth, users>>
      /\ http' = <<>>
      /\ last' = Call("vote_track", sid, NoTrack, VoterOf(user_id),
                      queue_position,
                      upvote, NoReply, got.result,
                      got.queue # sessions[sid].queue)

RemoveTrack(sid, position) ==
  IF sid \notin DOMAIN sessions
  THEN /\ UNCHANGED <<sessions, remote, threads, oauth, users>>
       /\ http' = <<>>
       /\ last' = Call("remove_track", sid, NoTrack, NoUser, position, FALSE,
                       NoReply, "False", FALSE)
  ELSE \E got \in {remove_track(sessions[sid].queue, position)} :
           /\ sessions' = set_queue(sessions, sid, got.queue)
           /\ UNCHANGED <<remote, threads, oauth, users>>
           /\ http' = <<>>
           /\ last' = Call("remove_track", sid, NoTrack, NoUser, position,
                           FALSE, NoReply, got.result,
                           got.queue # sessions[sid].queue)

\* a lookup that falls back to some session of the registry
get_queue_fallback(registry, sid) ==
  IF sid \in DOMAIN registry THEN registry[sid].queue
  ELSE IF DOMAIN registry = {} THEN <<>>
  ELSE registry[CHOOSE s \in DOMAIN registry : TRUE].queue

\* get_queue: session.queue if session else []
get_queue(registry, sid) ==
  IF sid \in DOMAIN registry THEN registry[sid].queue ELSE <<>>

\* the record of a get_queue call carries the list it returned
GetQueueOf(sid) ==
  /\ UNCHANGED <<sessions, remote, threads, oauth, users>>
  /\ http' = <<>>
  /\ last' = [op |-> "get_queue", sid |-> sid, track |-> NoTrack,
              user |-> NoUser, position |-> 0, upvote |-> FALSE,
              reply |-> NoReply, result |-> "list", changed |-> FALSE,
              tick |-> 1 - last.tick, queue |-> get_queue(sessions, sid)]

Users == {User(u, c) : u \in UserIds, c \in Connections}
Tracks == {Track(t) : t \in TrackIds}

Next ==
  \/ \E name \in SessionNames, initiator \in Users :
       CreateSession(name, initiator)
  \/ \E sid \in SessionIds, new_track \in Tracks, user \in Users,
        reply \in ArbiterReplies \cup {NoReply} :
       AddTrackRequest(sid, new_track, user, reply)
  \/ \E sid \in SessionIds, user_id \in UserIds, p \in Positions,
        upvote \in BOOLEAN :
       VoteTrack(sid, user_id, p, upvote)
  \/ \E sid \in SessionIds, p \in Positions : RemoveTrack(sid, p)

Spec == Init /\ [][Next]_vars

(***************************************************************************)
(* The calls that look a session up by id, made with ids of the registry   *)
(* and with an id that is not in it.                                       *)
(***************************************************************************)
NextLookup ==
  \/ \E name \in SessionNames, initiator \in Users :
       CreateSession(name, initiator)
  \/ \E sid \in SessionIds \cup {UnknownSid}, new_track \in Tracks,
        user \in Users, reply \in ArbiterReplies \cup {NoReply} :
       AddTrackRequest(sid, new_track, user, reply)
  \/ \E sid \in SessionIds \cup {UnknownSid}, p \in Positions :
       RemoveTrack(sid, p)
  \/ \E sid \in SessionIds \cup {UnknownSid} : GetQueueOf(sid)

SpecLookup == Init /\ [][NextLookup]_vars

(***************************************************************************)
(* The same calls made from several threads on session ConcSid.  Neither   *)
(* SessionManager nor Session holds a lock, so a thread may be switched    *)
(* out between two statements of a call; the steps below cut each call at  *)
(* the statements that read or write the queue:                            *)
(*   add_track_request  lines 103-117 (len(queue) read, arbiter asked),    *)
(*                      line 119 (append)                                  *)
(*   vote_track         lines 40-41 (bounds check, item fetched),          *)
(*                      lines 42-46 (vote set changed)                     *)
(*   remove_track       lines 192-194 (bounds check), line 196 (pop),      *)
(*                      each turn of the loop of _update_queue_positions   *)
(*   get_queue          line 203 (the list object itself is returned, not  *)
(*                      a copy), then the caller's reading of that list    *)
(* A thread that has fetched an item holds the object, not its index:      *)
(* `ref` follows the object when another thread pops before it (0 when the *)
(* object itself was popped).                                              *)
(***************************************************************************)
ConcSid == 1

\* the users whose requests the threads carry: one whose connection the
\* placement prompt can read, one without a connection
ConcUsers == {User("alice", "token_info"), User("bob", "none")}

\* the positions the threads vote on and remove at: the valid indexes and
\* one past the longest queue
ConcPositions == 0..ConcMaxLen

ConcQueue == sessions[ConcSid].queue

SetThread(t, state) == threads' = [threads EXCEPT ![t] = state]

\* the threads' item references after the pop of the item at index k (1-based)
RefsAfterPop(ths, k) ==
  [t \in DOMAIN ths |->
     IF ths[t].pc = "vote_apply"
     THEN [ths[t] EXCEPT !.ref = IF @ = k THEN 0
                                 ELSE IF @ > k THEN @ - 1 ELSE @]
     ELSE ths[t]]

InFlightAdds == Cardinality({t \in ThreadIds : threads[t].pc = "add_append"})

\* add_track_request lines 103-117: the item is built with
\* position = len(session.queue), then the arbiter is asked
AddBegin(t, new_track, user, reply) ==
  /\ threads[t] = Idle
  /\ Len(ConcQueue) + InFlightAdds < ConcMaxLen
  /\ (placement_prompt(user) \in Raised) = (reply = NoReply)
  /\ IF evaluate_track_placement(new_track, user, reply) \in Raised
     THEN UNCHANGED threads
     ELSE SetThread(t, [pc |-> "add_append",
                        item |-> add_track_request_item(ConcQueue, new_track,
                                                        user)])
  /\ UNCHANGED <<sessions, remote, last, http, oauth, users>>

\* add_track_request line 119
AddAppend(t) ==
  /\ threads[t].pc = "add_append"
  /\ sessions' = [sessions EXCEPT ![ConcSid].queue =
                    ListAppend(@, threads[t].item)]
  /\ SetThread(t, Idle)
  /\ UNCHANGED <<remote, last, http, oauth, users>>

\* vote_track lines 40-41
VoteBegin(t, user_id, queue_position, upvote) ==
  /\ threads[t] = Idle
  /\ IF 0 <= queue_position /\ queue_position < Len(ConcQueue)
     THEN SetThread(t, [pc |-> "vote_apply", ref |-> queue_position + 1,
                        user_id |-> user_id, upvote |-> upvote])
     ELSE UNCHANGED threads
  /\ UNCHANGED <<sessions, remote, last, http, oauth, users>>

\* vote_track lines 42-46
VoteApply(t) ==
  /\ threads[t].pc = "vote_apply"
  /\ IF threads[t].ref = 0
     THEN UNCHANGED sessions
     ELSE sessions' = [sessions EXCEPT ![ConcSid].queue[threads[t].ref] =
                         IF threads[t].upvote
                         THEN VotesAdd(@, threads[t].user_id)
                         ELSE VotesDiscard(@, threads[t].user_id)]
  /\ SetThread(t, Idle)
  /\ UNCHANGED <<remote, last, http, oauth, users>>

\* remove_track lines 192-194
RemoveBegin(t, position) ==
  /\ threads[t] = Idle
  /\ IF position >= Len(ConcQueue)
     THEN UNCHANGED threads
     ELSE SetThread(t, [pc |-> "remove_pop", position |-> position])
  /\ UNCHANGED <<sessions, remote, last, http, oauth, users>>

\* remove_track line 196: pop raises IndexError when the queue has shrunk
RemovePop(t) ==
  /\ threads[t].pc = "remove_pop"
  /\ IF PopIndexOk(ConcQueue, threads[t].position)
     THEN /\ sessions' = [sessions EXCEPT ![ConcSid].queue =
                            ListPop(@, threads[t].position)]
          /\ threads' = [RefsAfterPop(threads,
                           PopIndex(ConcQueue, threads[t].position) + 1)
                         EXCEPT ![t] = [pc |-> "remove_renumber", i |-> 0]]
     ELSE /\ UNCHANGED sessions
          /\ SetThread(t, Idle)
  /\ UNCHANGED <<remote, last, http, oauth, users>>

\* one turn of `for i, item in enumerate(session.queue): item.position = i`
\* (the list iterator ends when its index reaches the list's length)
RemoveRenumber(t) ==
  /\ threads[t].pc = "remove_renumber"
  /\ IF threads[t].i < Len(ConcQueue)
     THEN /\ sessions' = [sessions EXCEPT
                            ![ConcSid].queue[threads[t].i + 1].position =
                              threads[t].i]
          /\ SetThread(t, [threads[t] EXCEPT !.i = @ + 1])
     ELSE /\ UNCHANGED sessions
          /\ SetThread(t, Idle)
  /\ UNCHANGED <<remote, last, http, oauth, users>>

\* get_queue lines 202-203: the caller is handed session.queue itself
GetQueue(t) ==
  /\ threads[t] = Idle
  /\ SetThread(t, [pc |-> "reading"])
  /\ UNCHANGED <<sessions, remote, last, http, oauth, users>>

\* the caller has read the list get_queue handed it and lets go of it
ReadQueue(t) ==
  /\ threads[t].pc = "reading"
  /\ SetThread(t, Idle)
  /\ UNCHANGED <<sessions, remote, last, http, oauth, users>>

\* the user's playlists when the threads start
ConcRemotes == { << [id |-> 1, name |-> "party", tracks |-> <<"T1">>] >> }

\* the state after create_session("party", alice) on those playlists
InitConc ==
  /\ remote \in ConcRemotes
  /\ \E got \in {set_playlist(remote, User("alice", "token_info"), "party")} :
       sessions = [s \in {ConcSid} |->
                     Session("party", User("alice", "token_info"),
                             got.playlist, got.tracks)]
  /\ last = [op |-> "init", sid |-> 0, track |-> NoTrack, user |-> NoUser,
             position |-> 0, upvote |-> FALSE, reply |-> NoReply,
             result |-> "None", changed |-> FALSE, tick |-> 0]
  /\ threads = [t \in ThreadIds |-> Idle]
  /\ http = <<>>
  /\ oauth = NoFlow
  /\ users = {}

NextConc ==
  \E t \in ThreadIds :
    \/ \E new_track \in Tracks, user \in ConcUsers,
          reply \in ArbiterReplies \cup {NoReply} :
         AddBegin(t, new_track, user, reply)
    \/ AddAppend(t)
    \/ \E user_id \in UserIds, p \in ConcPositions, upvote \in BOOLEAN :
         VoteBegin(t, user_id, p, upvote)
    \/ VoteApply(t)
    \/ \E p \in ConcPositions : RemoveBegin(t, p)
    \/ RemovePop(t)
    \/ RemoveRenumber(t)
    \/ GetQueue(t)
    \/ ReadQueue(t)

SpecConc == InitConc /\ [][NextConc]_vars

(***************************************************************************)
(* The catalog provider's operations called one at a time, and             *)
(* SessionManager.set_playlist on top of them.  `last` is the record of    *)
(* the last call; `repeat` says that the call before it was a successful   *)
(* set_playlist of the same name, whose playlist is `prev_playlist`.       *)
(***************************************************************************)
CatalogNames == {"party", "chill"}

\* the user the catalog's playlists belong to, in each state of the
\* user's connection
CatalogUsers == {User("alice", c) : c \in Connections}

\* the lists of uris handed to add_tracks_to_playlist: none, one full chunk,
\* the longest list
UriLists == {[i \in 1..n |-> i] : n \in {0, ChunkSize, MaxUris}}

\* the request of a call that fails: none (0), or its k-th
FailAts == 0..((MaxUris + ChunkSize - 1) \div ChunkSize)

\* the tracks of the remote playlist with that id
RemoteTracksOf(playlists, playlist_id) ==
  (CHOOSE pl \in {playlists[i] : i \in 1..Len(playlists)} :
     pl.id = playlist_id).tracks

PlaylistIds(playlists) == {playlists[i].id : i \in 1..Len(playlists)}

\* the playlists after the service has added uris to the one with that id
AddedTo(playlists, playlist_id, uris) ==
  [i \in 1..Len(playlists) |->
     IF playlists[i].id = playlist_id
     THEN [playlists[i] EXCEPT !.tracks = @ \o uris]
     ELSE playlists[i]]

\* the playlists after the service has created one of that name
Created(playlists, name) ==
  Append(playlists,
         [id |-> NewPlaylistId(playlists), name |-> name, tracks |-> <<>>])

CatalogCall(op, user, name, playlist, uris, fail_at, result) ==
  [op |-> op, user |-> user, name |-> name, playlist |-> playlist,
   uris |-> uris, fail_at |-> fail_at, result |-> result,
   repeat |-> /\ op = "set_playlist" /\ last.op = "set_playlist"
              /\ last.name = name /\ last.result = "ok" /\ result = "ok",
   prev_playlist |-> IF last.op = "set_playlist" THEN last.playlist
                     ELSE NoPlaylist,
   tick |-> 1 - last.tick]

\* the user's playlists when the program starts: two of the same name, or
\* a single one
CatalogRemotes ==
  { << [id |-> 1, name |-> "party", tracks |-> <<1>>],
       [id |-> 2, name |-> "party", tracks |-> <<2>>] >>,
    << [id |-> 1, name |-> "chill", tracks |-> <<>>] >> }

InitCatalog ==
  /\ sessions = <<>>
  /\ remote \in CatalogRemotes
  /\ last = [op |-> "init", user |-> NoUser, name |-> "-",
             playlist |-> NoPlaylist, uris |-> <<>>, fail_at |-> 0,
             result |-> "None", repeat |-> FALSE,
             prev_playlist |-> NoPlaylist, tick |-> 0]
  /\ threads = [t \in ThreadIds |-> Idle]
  /\ http = <<>>
  /\ oauth = NoFlow
  /\ users = {}

\* one call that sends at most one request and leaves the catalog as it is
ReadOnlyCall(op, user, playlist_id, got) ==
  /\ http' = got.requests
  /\ last' = CatalogCall(op, user, "-", playlist_id, <<>>,
                         IF got.result = "HTTPError" THEN 1 ELSE 0,
                         got.result)
  /\ UNCHANGED <<sessions, remote, threads, oauth, users>>

SetPlaylist(user, target_playlist) ==
  \E got \in {set_playlist(remote, user, target_playlist)} :
    /\ Len(got.remote) <= MaxPlaylists
    /\ remote' = got.remote
    /\ http' = got.requests
    /\ last' = CatalogCall("set_playlist", user, target_playlist,
                           got.playlist, got.tracks, 0, got.result)
    /\ UNCHANGED <<sessions, threads, oauth, users>>

GetUserInformation(user, fails) ==
  ReadOnlyCall("get_user_information", user, NoPlaylist,
               get_user_information(user, fails))

GetUserPlaylists(user, fails) ==
  ReadOnlyCall("get_user_playlists", user, NoPlaylist,
               get_user_playlists(user, fails))

GetUserPlaylist(user, playlist_id, fails) ==
  ReadOnlyCall("get_user_playlist", user, playlist_id,
               get_user_playlist(user, playlist_id, fails))

CreatePlaylist(user, name, fails) ==
  /\ Len(remote) < MaxPlaylists
  /\ \E got \in {create_playlist(user, fails)} :
      /\ remote' = IF got.result = "Dict" THEN Created(remote, name)
                   ELSE remote
      /\ http' = got.requests
      /\ last' = CatalogCall("create_playlist", user, name,
                             IF got.result = "Dict"
                             THEN NewPlaylistId(remote) ELSE NoPlaylist,
                             <<>>, IF got.result = "HTTPError" THEN 1 ELSE 0,
                             got.result)
      /\ UNCHANGED <<sessions, threads, oauth, users>>

AddTracksToPlaylist(user, playlist_id, track_uris, fail_at) ==
  /\ Len(RemoteTracksOf(remote, playlist_id)) + Len(track_uris) <= MaxUris
  /\ \E got \in {add_tracks_to_playlist(user, playlist_id, track_uris,
                                        fail_at)} :
      /\ remote' = AddedTo(remote, playlist_id, got.applied)
      /\ http' = got.requests
      /\ last' = CatalogCall("add_tracks_to_playlist", user, "-",
                             playlist_id, track_uris, fail_at, got.result)
      /\ UNCHANGED <<sessions, threads, oauth, users>>

\* range_start, insert_before and range_length go into the request body as
\* they are handed in
ReorderPlaylistTracks(user, playlist_id, fails) ==
  ReadOnlyCall("reorder_playlist_tracks", user, playlist_id,
               reorder_playlist_tracks(user, playlist_id, fails))

PlayUserPlaylist(user, playlist_id, fails) ==
  ReadOnlyCall("play_user_playlist", user, playlist_id,
               play_user_playlist(user, playlist_id, fails))

PausePlayback(user, fails) ==
  ReadOnlyCall("pause_playback", user, NoPlaylist,
               pause_playback(user, fails))

NextCatalog ==
  \/ \E user \in CatalogUsers, name \in CatalogNames : SetPlaylist(user, name)
  \/ \E user \in CatalogUsers, fails \in BOOLEAN :
       GetUserInformation(user, fails)
  \/ \E user \in CatalogUsers, fails \in BOOLEAN :
       GetUserPlaylists(user, fails)
  \/ \E user \in CatalogUsers, pl \in PlaylistIds(remote), fails \in BOOLEAN :
       GetUserPlaylist(user, pl, fails)
  \/ \E user \in CatalogUsers, name \in CatalogNames, fails \in BOOLEAN :
       CreatePlaylist(user, name, fails)
  \/ \E user \in CatalogUsers, pl \in PlaylistIds(remote),
        track_uris \in UriLists, fail_at \in FailAts :
       AddTracksToPlaylist(user, pl, track_uris, fail_at)
  \/ \E user \in CatalogUsers, pl \in PlaylistIds(remote), fails \in BOOLEAN :
       ReorderPlaylistTracks(user, pl, fails)
  \/ \E user \in CatalogUsers, pl \in PlaylistIds(remote), fails \in BOOLEAN :
       PlayUserPlaylist(user, pl, fails)
  \/ \E user \in CatalogUsers, fails \in BOOLEAN : PausePlayback(user, fails)

SpecCatalog == InitCatalog /\ [][NextCatalog]_vars

(***************************************************************************)
(* The OAuth2 authorization flow (src/music/auth/oauth2_server.py).        *)
(* get_auth_tokens binds a socketserver.TCPServer, runs serve_forever on a *)
(* thread of its own and joins that thread.  The server handles one        *)
(* request at a time on the serve_forever thread: do_GET runs there and    *)
(* blocks it while requests.post waits for the token endpoint.  A          *)
(* successful exchange starts one more thread that calls server.shutdown,  *)
(* which sets the flag serve_forever tests before it takes the next        *)
(* request.  `oauth` holds:                                                *)
(*   auth_tokens       OAuth2Server.auth_tokens                            *)
(*   server            "None", "serving" (serve_forever runs), "stopped"   *)
(*   shutdown_request  the flag server.shutdown sets                       *)
(*   shutdown_threads  threads started at line 68 that have not run yet    *)
(*   handler           the request do_GET is waiting on the exchange for   *)
(*   caller            the caller of get_auth_tokens: "idle", "joining",   *)
(*                     "returned", "raised"; result is what it was handed  *)
(*   handled           the requests the listener has taken                 *)
(*   port              "free", or "bound" by the listening socket of a     *)
(*                     TCPServer; only server_close gives it back, and     *)
(*                     the server stays referenced by OAuth2Server.server  *)
(* `last` is the last event at the listener: the request, the answer of    *)
(* the token endpoint, the response the browser got.                       *)
(***************************************************************************)
Paths == {"/callback", "/"}
NoCode == "None"
Codes == {NoCode, "code1"}
TokenValues == {"tokens1", "tokens2"}
StatusCodes == {200, 400}

\* a handler that sends every /callback request to the token endpoint,
\* with or without a code
do_GET_exchanges_without_code(path, code) ==
  IF path = "/callback" THEN "exchange"
  ELSE "200 OAuth2 authentication running."

\* do_GET lines 44-51 and 73-80: the response the branch sends, or
\* "exchange" where the code goes to the token endpoint
do_GET(path, code) ==
  IF path = "/callback"
  THEN IF code # NoCode THEN "exchange" ELSE "400 No code parameter found."
  ELSE "200 OAuth2 authentication running."

\* a handler that signals shutdown when the token request failed, too
do_GET_exchanged_always_shutdown(o, status_code, tokens) ==
  [response |-> IF status_code = 200 THEN "200 Authentication successful!"
                ELSE "400 Token request failed.",
   oauth |-> [o EXCEPT !.auth_tokens = IF status_code = 200 THEN tokens ELSE @,
                       !.shutdown_threads = @ + 1,
                       !.handler = NoRequest]]

\* do_GET lines 62-72, after requests.post has returned r: the response
\* sent and the flow's state afterwards
do_GET_exchanged(o, status_code, tokens) ==
  IF status_code = 200
  THEN [response |-> "200 Authentication successful!",
        oauth |-> [o EXCEPT !.auth_tokens = tokens,
                            !.shutdown_threads = @ + 1,
                            !.handler = NoRequest]]
  ELSE [response |-> "400 Token request failed.",
        oauth |-> [o EXCEPT !.handler = NoRequest]]

\* rejected: the exchanges so far that the token endpoint answered with a
\* status other than 200; accepted: those it answered with 200, each of
\* which assigned auth_tokens at line 63 and started a thread at line 68
OAuthEvent(op, path, code, status_code, tokens, response) ==
  [op |-> op, path |-> path, code |-> code, status_code |-> status_code,
   tokens |-> tokens, response |-> response,
   rejected |-> IF op = "exchange" /\ status_code # 200
                THEN last.rejected + 1 ELSE last.rejected,
   accepted |-> IF op = "exchange" /\ status_code = 200
                THEN last.accepted + 1 ELSE last.accepted,
   tick |-> 1 - last.tick]

InitOAuth ==
  /\ sessions = <<>>
  /\ remote = <<>>
  /\ last = [op |-> "init", path |-> "-", code |-> "-", status_code |-> 0,
             tokens |-> "None", response |-> "-", rejected |-> 0,
             accepted |-> 0, tick |-> 0]
  /\ threads = [t \in ThreadIds |-> Idle]
  /\ http = <<>>
  /\ oauth = NoFlow
  /\ users = {}

\* get_auth_tokens lines 93-110, called when no call is in progress: the
\* listener is bound and started, the browser is opened, the caller joins
\* the listener's thread.  TCPServer(("", port), ...) at line 93 raises
\* OSError (address already in use) when the port is bound.
GetAuthTokens ==
  /\ oauth.caller # "joining"
  /\ oauth' = IF oauth.port = "bound"
              THEN [oauth EXCEPT !.caller = "raised", !.result = "OSError"]
              ELSE [oauth EXCEPT !.server = "serving", !.port = "bound",
                                 !.caller = "joining", !.result = "None"]
  /\ UNCHANGED <<sessions, remote, last, threads, http, users>>

\* serve_forever takes a request while the shutdown flag is not set, and
\* do_GET handles it up to its response or up to requests.post
DoGET(path, code) ==
  /\ oauth.server = "serving" /\ ~oauth.shutdown_request
  /\ oauth.handler = NoRequest
  /\ oauth.handled < MaxRequests
  /\ IF do_GET(path, code) = "exchange"
     THEN /\ oauth' = [oauth EXCEPT !.handler = [path |-> path, code |-> code],
                                    !.handled = @ + 1]
          /\ last' = OAuthEvent("do_GET", path, code, 0, "None", "-")
     ELSE /\ oauth' = [oauth EXCEPT !.handled = @ + 1]
          /\ last' = OAuthEvent("do_GET", path, code, 0, "None",
                                do_GET(path, code))
  /\ UNCHANGED <<sessions, remote, threads, http, users>>

\* the token endpoint answers requests.post; do_GET lines 62-72
TokenExchange(status_code, tokens) ==
  /\ oauth.handler # NoRequest
  /\ (status_code = 200) = (tokens # "None")
  /\ \E got \in {do_GET_exchanged(oauth, status_code, tokens)} :
       /\ oauth' = got.oauth
       /\ last' = OAuthEvent("exchange", oauth.handler.path,
                             oauth.handler.code, status_code, tokens,
                             got.response)
  /\ UNCHANGED <<sessions, remote, threads, http, users>>

\* requests.post raises (no connection to the token endpoint): do_GET ends
\* with the exception, which socketserver reports; the browser's
\* connection is closed without a response
TokenExchangeRaises ==
  /\ oauth.handler # NoRequest
  /\ oauth' = [oauth EXCEPT !.handler = NoRequest]
  /\ last' = OAuthEvent("exchange_raised", oauth.handler.path,
                        oauth.handler.code, 0, "None", "-")
  /\ UNCHANGED <<sessions, remote, threads, http, users>>

\* a thread started at line 68 runs server.shutdown: the flag is set
ShutdownThread ==
  /\ oauth.shutdown_threads > 0
  /\ oauth' = [oauth EXCEPT !.shutdown_threads = @ - 1,
                            !.shutdown_request = TRUE]
  /\ UNCHANGED <<sessions, remote, last, threads, http, users>>

\* serve_forever finds the flag set and returns; it clears the flag
ServeForeverExit ==
  /\ oauth.server = "serving" /\ oauth.shutdown_request
  /\ oauth.handler = NoRequest
  /\ oauth' = [oauth EXCEPT !.server = "stopped",
                            !.shutdown_request = FALSE]
  /\ UNCHANGED <<sessions, remote, last, threads, http, users>>

\* get_auth_tokens lines 110-115: join returns when the listener's thread
\* has ended
JoinReturns ==
  /\ oauth.caller = "joining" /\ oauth.server = "stopped"
  /\ oauth' = IF oauth.auth_tokens = "None"
              THEN [oauth EXCEPT !.caller = "raised", !.result = "Exception"]
              ELSE [oauth EXCEPT !.caller = "returned",
                                 !.result = oauth.auth_tokens]
  /\ UNCHANGED <<sessions, remote, last, threads, http, users>>

NextOAuth ==
  \/ GetAuthTokens
  \/ \E path \in Paths, code \in Codes : DoGET(path, code)
  \/ \E status_code \in StatusCodes, tokens \in TokenValues \cup {"None"} :
       TokenExchange(status_code, tokens)
  \/ TokenExchangeRaises
  \/ ShutdownThread
  \/ ServeForeverExit
  \/ JoinReturns

SpecOAuth == InitOAuth /\ [][NextOAuth]_vars

\* the threads of the flow are scheduled, and the token endpoint answers
\* or fails to; when the browser sends a request is up to the user
SpecOAuthFair ==
  /\ SpecOAuth
  /\ WF_vars(GetAuthTokens)
  /\ WF_vars(\E status_code \in StatusCodes,
                tokens \in TokenValues \cup {"None"} :
                  TokenExchange(status_code, tokens))
  /\ WF_vars(ShutdownThread)
  /\ WF_vars(ServeForeverExit)
  /\ WF_vars(JoinReturns)

(***************************************************************************)
(* The session registry used from several threads: create_session and      *)
(* get_session on one SessionManager.  The steps cut create_session at its *)
(* one access to the registry:                                             *)
(*   create_session  lines 70-92 (uuid4, set_playlist, the Session and its *)
(*                   seeded queue, all local to the call),                 *)
(*                   line 94 (self.sessions[session_id] = session)         *)
(*   get_session     line 99 (self.sessions.get(session_id))               *)
(* A dict store and a dict get are each one step of the interpreter.       *)
(* uuid4 draws 122 random bits: the model takes an id no other call has    *)
(* drawn.  `last.created` is the record of the creations that have         *)
(* returned: id -> the Session returned.                                   *)
(***************************************************************************)
RegistryIds == 1..MaxCreations

\* the ids uuid4 has handed to calls that have not stored their session yet
IdsInFlight ==
  {threads[t].session_id :
     t \in {u \in ThreadIds : threads[u].pc = "create_store"}}

\* a registry that forgets the other sessions when one is stored
registry_store_replace(registry, session_id, session) ==
  [s \in {session_id} |-> session]

\* self.sessions[session_id] = session
registry_store(registry, session_id, session) ==
  [s \in DOMAIN registry \cup {session_id} |->
     IF s = session_id THEN session ELSE registry[s]]

\* self.sessions.get(session_id): <<>> for None, <<session>> otherwise
get_session(registry, session_id) ==
  IF session_id \in DOMAIN registry THEN <<registry[session_id]>> ELSE <<>>

RegistryEvent(op, sid, result, created) ==
  [op |-> op, sid |-> sid, result |-> result, created |-> created,
   tick |-> 1 - last.tick]

InitRegistry ==
  /\ sessions = <<>>
  /\ remote \in ConcRemotes
  /\ last = [op |-> "init", sid |-> 0, result |-> <<>>, created |-> <<>>,
             tick |-> 0]
  /\ threads = [t \in ThreadIds |-> Idle]
  /\ http = <<>>
  /\ oauth = NoFlow
  /\ users = {}

\* create_session lines 70-92
CreateBegin(t, name, initiator) ==
  /\ threads[t] = Idle
  /\ RegistryIds \ (DOMAIN sessions \cup IdsInFlight) # {}
  /\ \E got \in {set_playlist(remote, initiator, name)},
        session_id \in RegistryIds \ (DOMAIN sessions \cup IdsInFlight) :
       /\ Len(got.remote) <= MaxPlaylists
       /\ remote' = got.remote
       /\ http' = got.requests
       /\ IF got.result \in Raised
          THEN UNCHANGED threads
          ELSE SetThread(t, [pc |-> "create_store", session_id |-> session_id,
                             session |-> Session(name, initiator, got.playlist,
                                                 got.tracks)])
  /\ UNCHANGED <<sessions, last, oauth, users>>

\* create_session lines 94-95
CreateStore(t) ==
  /\ threads[t].pc = "create_store"
  /\ sessions' = registry_store(sessions, threads[t].session_id,
                                threads[t].session)
  /\ last' = RegistryEvent("create_session", threads[t].session_id,
                           <<threads[t].session>>,
                           [s \in DOMAIN last.created
                                     \cup {threads[t].session_id} |->
                              IF s = threads[t].session_id
                              THEN threads[t].session ELSE last.created[s]])
  /\ SetThread(t, Idle)
  /\ UNCHANGED <<remote, http, oauth, users>>

\* get_session
GetSession(t, session_id) ==
  /\ threads[t] = Idle
  /\ last' = RegistryEvent("get_session", session_id,
                           get_session(sessions, session_id), last.created)
  /\ UNCHANGED <<sessions, remote, threads, http, oauth, users>>

NextRegistry ==
  \E t \in ThreadIds :
    \/ \E name \in CatalogNames, initiator \in ConcUsers :
         CreateBegin(t, name, initiator)
    \/ CreateStore(t)
    \/ \E session_id \in RegistryIds : GetSession(t, session_id)

SpecRegistry == InitRegistry /\ [][NextRegistry]_vars

(***************************************************************************)
(* The function bridge between the language model and the music provider:  *)
(* MusicLLMBridge.execute_function.  A call names a function and may carry *)
(* a username; the bridge checks the name against the declared schemas,    *)
(* resolves the user, and calls the provider's attribute of that name.     *)
(***************************************************************************)
\* schema["name"] for schema in self.function_schemas; the create_playlist
\* schema is commented out
FunctionSchemas ==
  {"search_tracks", "get_track", "get_artist", "get_user_playlists",
   "add_tracks_to_playlist", "set_playlist_track_order"}

\* the attributes a BaseMusic provider has: every method BaseMusic declares
\* (SpotifyProvider inherits set_playlist_track_order as a stub)
ProviderAttributes ==
  {"search_tracks", "get_track", "get_artist", "request_user_token",
   "get_user_playlists", "create_playlist", "add_tracks_to_playlist",
   "reorder_playlist_tracks", "play_user_playlist", "pause_playback",
   "get_user_information", "set_playlist_track_order", "get_user_playlist"}

\* the provider methods whose signature has a `user` parameter
TakesUser ==
  ProviderAttributes \ {"search_tracks", "get_track", "get_artist",
                        "request_user_token"}

\* names a language model may ask for
FunctionNames == ProviderAttributes \cup {"delete_playlist", "__class__"}

NoUsername == "<absent>"
Usernames == {"alice", "bob", "mallory"}

\* a schema check that lets every name through
is_declared_any(function_name) == TRUE

\* function_name in [schema["name"] for schema in self.function_schemas]
is_declared(function_name) == function_name \in FunctionSchemas

\* UserManager.get_user_by_username: the user or None
get_user_by_username(registered, username) ==
  IF username \in registered THEN username ELSE "None"

\* execute_function: what it raises or that it returned, the user lookups
\* it made, the attribute it looked up on the provider and the provider
\* method whose body ran
execute_function(function_name, registered, username) ==
  IF ~is_declared(function_name)
  THEN [result |-> "ValueError: Unknown function", lookups |-> <<>>,
        attribute |-> "None", invoked |-> "None"]
  ELSE IF /\ username # NoUsername
          /\ get_user_by_username(registered, username) = "None"
  THEN [result |-> "ValueError: User not found", lookups |-> <<username>>,
        attribute |-> "None", invoked |-> "None"]
  ELSE LET lookups == IF username = NoUsername THEN <<>> ELSE <<username>>
       IN  IF function_name \notin ProviderAttributes
           THEN [result |-> "AttributeError", lookups |-> lookups,
                 attribute |-> function_name, invoked |-> "None"]
           ELSE IF (username # NoUsername) # (function_name \in TakesUser)
           THEN [result |-> "TypeError", lookups |-> lookups,
                 attribute |-> function_name, invoked |-> "None"]
           ELSE [result |-> "returned", lookups |-> lookups,
                 attribute |-> function_name, invoked |-> function_name]

BridgeCall(function_name, username, got) ==
  [function_name |-> function_name, username |-> username,
   result |-> got.result, lookups |-> got.lookups,
   attribute |-> got.attribute, invoked |-> got.invoked,
   tick |-> 1 - last.tick]

\* the registered users are those of the user cache the manager loaded
InitBridge ==
  /\ sessions = <<>>
  /\ users \in SUBSET {"alice", "bob"}
  /\ remote = <<>>
  /\ last = [function_name |-> "None", username |-> NoUsername,
             result |-> "None", lookups |-> <<>>, attribute |-> "None",
             invoked |-> "None", tick |-> 0]
  /\ threads = [t \in ThreadIds |-> Idle]
  /\ http = <<>>
  /\ oauth = NoFlow

ExecuteFunction(function_name, username) ==
  /\ last' = BridgeCall(function_name, username,
                        execute_function(function_name, users,
                                         username))
  /\ UNCHANGED <<sessions, remote, threads, http, oauth, users>>

NextBridge ==
  \E function_name \in FunctionNames, username \in Usernames \cup {NoUsername} :
    ExecuteFunction(function_name, username)

SpecBridge == InitBridge /\ [][NextBridge]_vars

(***************************************************************************)
(* A registry holding two sessions, each created by create_session for its *)
(* own initiator, and the queue operations called on either of them.       *)
(***************************************************************************)
PairIds == {1, 2}
PairInitiators == <<User("alice", "token_info"), User("bob", "token_info")>>

InitPair ==
  /\ remote \in ConcRemotes
  /\ sessions = [sid \in PairIds |->
       LET got == set_playlist(remote, PairInitiators[sid], "party")
       IN  Session("party", PairInitiators[sid], got.playlist, got.tracks)]
  /\ last = [op |-> "init", sid |-> 0, track |-> NoTrack, user |-> NoUser,
             position |-> 0, upvote |-> FALSE, reply |-> NoReply,
             result |-> "None", changed |-> FALSE, tick |-> 0]
  /\ threads = [t \in ThreadIds |-> Idle]
  /\ http = <<>>
  /\ oauth = NoFlow
  /\ users = {}

NextPair ==
  \/ \E sid \in PairIds, new_track \in Tracks, user \in ConcUsers,
        reply \in ArbiterReplies \cup {NoReply} :
       /\ Len(sessions[sid].queue) < PairMaxLen
       /\ AddTrackRequest(sid, new_track, user, reply)
  \/ \E sid \in PairIds, user_id \in UserIds, p \in ConcPositions,
        upvote \in BOOLEAN :
       VoteTrack(sid, user_id, p, upvote)
  \/ \E sid \in PairIds, p \in ConcPositions : RemoveTrack(sid, p)

SpecPair == InitPair /\ [][NextPair]_vars

(***************************************************************************)
(* Notions the properties below are stated with.                           *)
(***************************************************************************)
\* the position fields of a queue, read in queue order, are 0, 1, ..., n-1
PositionsContiguous(queue) ==
  \A j \in 1..Len(queue) : queue[j].position = j - 1

\* the last call was `op` on a session of the registry
LastOn(op) == last.op = op /\ last.sid \in DOMAIN sessions

\* a step is a call of `op` on a session of the registry
StepOn(op) == last'.op = op /\ last'.sid \in DOMAIN sessions

\* position is a valid index of queue
ValidIndex(queue, position) == 0 <= position /\ position < Len(queue)

\* two items are the same request with the same votes, whatever their position
SameItem(a, b) ==
  a.track = b.track /\ a.requested_by = b.requested_by /\ a.votes = b.votes

(***************************************************************************)
(* C1: after any sequence of create_session seeding, add_track_request and *)
(* remove_track calls (and votes), the position fields of every session's  *)
(* queue, read in queue order, are exactly 0, 1, ..., n-1.                 *)
(***************************************************************************)
C1_PositionsContiguous ==
  \A sid \in DOMAIN sessions : PositionsContiguous(sessions[sid].queue)

\* a removal that was not at the tail left two items behind: the items after
\* the removed one were renumbered
C1_Witness ==
  /\ LastOn("remove_track") /\ last.result = "True" /\ last.position = 0
  /\ Len(sessions[last.sid].queue) = 2

(***************************************************************************)
(* C3: add_track_request on an existing session whose queue has length n   *)
(* leaves the first n items unchanged and adds exactly one item at index   *)
(* n, carrying that track, position = n and votes = {requester}.           *)
(***************************************************************************)
C3_AppendsOneItem ==
  [][StepOn("add_track_request") =>
       LET before == sessions[last'.sid].queue
           after == sessions'[last'.sid].queue
           n == Len(before)
       IN  /\ Len(after) = n + 1
           /\ \A j \in 1..n : after[j] = before[j]
           /\ after[n + 1].track = last'.track
           /\ after[n + 1].position = n
           /\ after[n + 1].votes = {last'.user.user_id}]_vars

(***************************************************************************)
(* C4: enqueue never fails: add_track_request on an existing session       *)
(* terminates without raising, reports success to its caller, and the      *)
(* track is in the queue afterwards.                                       *)
(***************************************************************************)
C4_EnqueueNeverFails ==
  LastOn("add_track_request") =>
    /\ last.result = "True"
    /\ \E j \in 1..Len(sessions[last.sid].queue) :
         sessions[last.sid].queue[j].track = last.track

(***************************************************************************)
(* C5: voting is idempotent.  An upvote of position p by user u leaves the *)
(* vote set of p as the old one with u in it, so an upvote by a user who   *)
(* is in the set already changes nothing; a downvote by a user who is not  *)
(* in the set changes nothing and still returns True.  No vote changes     *)
(* another item or the order of the queue.                                 *)
(***************************************************************************)
C5_VoteIdempotent ==
  [][(StepOn("vote_track")
        /\ ValidIndex(sessions[last'.sid].queue, last'.position)) =>
       LET before == sessions[last'.sid].queue
           after == sessions'[last'.sid].queue
           k == last'.position + 1
           u == last'.user.user_id
       IN  /\ last'.result = "True"
           /\ Len(after) = Len(before)
           /\ \A j \in 1..Len(before) : j # k => after[j] = before[j]
           /\ last'.upvote => after[k].votes = before[k].votes \cup {u}
           /\ (last'.upvote /\ u \in before[k].votes) => after = before
           /\ (~last'.upvote /\ u \notin before[k].votes) => after = before
           /\ ~last'.upvote => after[k].votes = before[k].votes \ {u}]_vars

\* an upvote that returned True and changed nothing: the user had voted
C5_Witness ==
  /\ LastOn("vote_track") /\ last.upvote /\ last.result = "True"
  /\ ~last.changed
  /\ Cardinality(sessions[last.sid].queue[last.position + 1].votes) = 2

(***************************************************************************)
(* C6: vote_track with a position that is not a valid index of the queue   *)
(* (negative, or >= the queue length) returns False and leaves the queue   *)
(* and every vote set unchanged; with a valid index it returns True.       *)
(***************************************************************************)
C6_VoteOutOfRange ==
  [][StepOn("vote_track") =>
       IF ValidIndex(sessions[last'.sid].queue, last'.position)
       THEN last'.result = "True"
       ELSE last'.result = "False" /\ sessions' = sessions]_vars

\* a vote at a negative position of a queue that has items was refused
C6_Witness ==
  /\ LastOn("vote_track") /\ last.position < 0 /\ last.result = "False"
  /\ Len(sessions[last.sid].queue) > 0

(***************************************************************************)
(* C7: remove_track at a valid position p of a queue of length n removes   *)
(* exactly the item that was at index p, keeps the other n-1 items in      *)
(* their previous relative order with their vote sets intact, and returns  *)
(* True; for n = 1 the result is the empty queue.                          *)
(***************************************************************************)
C7_RemoveAtValid ==
  [][(StepOn("remove_track")
        /\ ValidIndex(sessions[last'.sid].queue, last'.position)) =>
       LET before == sessions[last'.sid].queue
           after == sessions'[last'.sid].queue
           p == last'.position
       IN  /\ last'.result = "True"
           /\ Len(after) = Len(before) - 1
           /\ \A j \in 1..Len(after) :
                SameItem(after[j], IF j <= p THEN before[j] ELSE before[j + 1])
           /\ Len(before) = 1 => after = <<>>]_vars

\* the middle item of three was removed
C7_Witness ==
  /\ LastOn("remove_track") /\ last.position = 1 /\ last.result = "True"
  /\ Len(sessions[last.sid].queue) = 2

(***************************************************************************)
(* C8: remove_track with a position that is not a valid index of the queue *)
(* (negative, or >= the queue length, any position on an empty queue)      *)
(* fails with an out-of-range result and leaves the queue unchanged.       *)
(***************************************************************************)
C8_RemoveOutOfRange ==
  [][(StepOn("remove_track")
        /\ ~ValidIndex(sessions[last'.sid].queue, last'.position)) =>
       /\ last'.result \in {"False", "IndexError"}
       /\ sessions' = sessions]_vars

(***************************************************************************)
(* The arbiter's decision, as the placement contract reads a reply: the    *)
(* identifier it names must be in the queue or be the candidate's; the     *)
(* candidate goes to the index of the named track, or to the tail when the *)
(* reply names the candidate itself.                                       *)
(***************************************************************************)
QueueTrackIds(queue) == {queue[j].track : j \in 1..Len(queue)}

ReferencesUnknown(queue, candidate, reply) ==
  /\ reply.kind = "function_call"
  /\ reply.insert_at_track \notin QueueTrackIds(queue) \cup {candidate}

ValidDecision(queue, candidate, reply) ==
  /\ reply.kind = "function_call"
  /\ reply.insert_at_track \in QueueTrackIds(queue) \cup {candidate}

\* 0-based
DecidedIndex(queue, candidate, reply) ==
  IF reply.insert_at_track \in QueueTrackIds(queue)
  THEN (CHOOSE j \in 1..Len(queue) :
          /\ queue[j].track = reply.insert_at_track
          /\ \A i \in 1..(j - 1) : queue[i].track # reply.insert_at_track) - 1
  ELSE Len(queue)

(***************************************************************************)
(* C9: a placement whose arbiter result references a track identifier that *)
(* is neither in the current queue nor the candidate itself is reported as *)
(* ArbiterRejected and leaves the queue unchanged.                         *)
(***************************************************************************)
C9_UnknownTrackRejected ==
  [][(StepOn("add_track_request")
        /\ ReferencesUnknown(sessions[last'.sid].queue, last'.track,
                             last'.reply)) =>
       /\ last'.result = "ArbiterRejected"
       /\ sessions' = sessions]_vars

(***************************************************************************)
(* C10: when the arbiter returns a valid ordering decision for a track     *)
(* request, the candidate is inserted into the session queue at the index  *)
(* the arbiter decided and all positions are renumbered.                   *)
(***************************************************************************)
C10_InsertedAtDecidedIndex ==
  [][(StepOn("add_track_request")
        /\ ValidDecision(sessions[last'.sid].queue, last'.track,
                         last'.reply)) =>
       LET before == sessions[last'.sid].queue
           after == sessions'[last'.sid].queue
           k == DecidedIndex(before, last'.track, last'.reply) + 1
       IN  /\ Len(after) = Len(before) + 1
           /\ after[k].track = last'.track
           /\ after[k].votes = {last'.user.user_id}
           /\ \A j \in 1..Len(before) :
                SameItem(after[IF j < k THEN j ELSE j + 1], before[j])
           /\ PositionsContiguous(after)]_vars

(***************************************************************************)
(* C11: if the arbiter call raises or returns an instruction that violates *)
(* its contract, the track request still completes by appending the        *)
(* candidate at the tail of the queue, and the arbiter's failure is not    *)
(* propagated to the requester.                                            *)
(***************************************************************************)
ArbiterFailed(queue, candidate, reply) ==
  reply.kind = "api_error" \/ ReferencesUnknown(queue, candidate, reply)

C11_ArbiterFailureFallsBack ==
  [][(StepOn("add_track_request")
        /\ ArbiterFailed(sessions[last'.sid].queue, last'.track,
                         last'.reply)) =>
       LET before == sessions[last'.sid].queue
           after == sessions'[last'.sid].queue
       IN  /\ last'.result \notin Raised
           /\ Len(after) = Len(before) + 1
           /\ \A j \in 1..Len(before) : after[j] = before[j]
           /\ after[Len(after)].track = last'.track]_vars

(***************************************************************************)
(* C12: the session queue is kept in sync with its backing remote          *)
(* playlist: after every completed track request or removal, the sequence  *)
(* of track identifiers in the local queue equals the sequence of tracks   *)
(* in the remote playlist.                                                 *)
(***************************************************************************)
QueueTracks(queue) == [j \in 1..Len(queue) |-> queue[j].track]

C12_QueueInSyncWithRemote ==
  ((LastOn("add_track_request") \/ LastOn("remove_track"))
     /\ last.result \in {"None", "True"}) =>
    QueueTracks(sessions[last.sid].queue)
      = RemoteTracksOf(remote, sessions[last.sid].playlist)

(***************************************************************************)
(* C2: when mutations of one session's queue run concurrently, the queue   *)
(* they leave equals the result of applying them one at a time in some     *)
(* order; in particular no two items end up with the same position: once   *)
(* every call has returned, the positions are 0 .. n-1 as after any        *)
(* one-at-a-time execution (C1).                                           *)
(***************************************************************************)
AllIdle == \A t \in ThreadIds : threads[t] = Idle

C2_ConcurrentAsSerial ==
  AllIdle => PositionsContiguous(ConcQueue)

(***************************************************************************)
(* C13: a reader of the queue (get_queue) running concurrently with        *)
(* mutations only observes states between whole mutations: every queue it  *)
(* can observe has contiguous positions 0..n-1, never a removal or an      *)
(* insertion whose renumbering has not been applied yet.                   *)
(***************************************************************************)
Reading(t) == threads[t].pc = "reading"

C13_ReaderSeesWholeMutations ==
  \A t \in ThreadIds : Reading(t) => PositionsContiguous(ConcQueue)

(***************************************************************************)
(* Notions about the catalog's calls.                                      *)
(***************************************************************************)
\* a step is a call of `op` on the catalog
CatalogStep(op) == last'.op = op

\* the indexes of the playlists of that name, in list order
Matches(playlists, name) ==
  {i \in 1..Len(playlists) : playlists[i].name = name}

FirstMatch(playlists, name) ==
  playlists[CHOOSE i \in Matches(playlists, name) :
              \A j \in Matches(playlists, name) : i <= j]

\* the requests that create a playlist
CreateRequests(requests) ==
  {k \in 1..Len(requests) :
     requests[k].method = "POST" /\ requests[k].path = "users/id/playlists"}

(***************************************************************************)
(* C14: when the user's remote playlist list contains several playlists    *)
(* whose name equals the session name, set_playlist returns the first of   *)
(* them in list order, and the hydrated track list is exactly that first   *)
(* playlist's tracks.                                                      *)
(***************************************************************************)
C14_FirstMatchWins ==
  [][(CatalogStep("set_playlist") /\ last'.result = "ok"
        /\ Cardinality(Matches(remote, last'.name)) > 1) =>
       /\ last'.playlist = FirstMatch(remote, last'.name).id
       /\ last'.uris = FirstMatch(remote, last'.name).tracks]_vars

RECURSIVE ConcatUris(_)
ConcatUris(requests) ==
  IF requests = <<>> THEN <<>>
  ELSE Head(requests).uris \o ConcatUris(Tail(requests))

IsAddCall(request, playlist_id) ==
  /\ request.method = "POST" /\ request.path = "playlists/id/tracks"
  /\ request.playlist = playlist_id

C16_ChunksOfHundred ==
  [][(CatalogStep("add_tracks_to_playlist") /\ last'.result = "None"
        /\ require_user_connection(last'.user)) =>
       LET n == Len(last'.uris)
       IN  /\ Len(http') = (n + 99) \div 100
           /\ \A k \in 1..Len(http') :
                /\ IsAddCall(http'[k], last'.playlist)
                /\ Len(http'[k].uris) <= 100
                /\ http'[k].uris =
                     SubSeq(last'.uris, 100 * (k - 1) + 1,
                            IF 100 * k <= n THEN 100 * k ELSE n)
           /\ ConcatUris(http') = last'.uris
           /\ n = 250 =>
                [k \in 1..Len(http') |-> Len(http'[k].uris)] = <<100, 100, 50>>
           /\ n = 0 => http' = <<>>
           /\ remote' = AddedTo(remote, last'.playlist, last'.uris)]_vars

\* a list that needed three calls, the last one not full, was pushed
C16_Witness ==
  /\ last.op = "add_tracks_to_playlist" /\ last.result = "None"
  /\ Len(last.uris) > 200 /\ Len(http) = 3
  /\ Len(http[3].uris) < 100

(***************************************************************************)
(* C17: if the k-th chunk call of add_tracks_to_playlist fails, the error  *)
(* is propagated to the caller, chunks 1..k-1 stay applied to the remote   *)
(* playlist (no rollback), and no chunk after k is sent (no resume, no     *)
(* retry).                                                                 *)
(***************************************************************************)
C17_FailureKeepsCommittedChunks ==
  [][(CatalogStep("add_tracks_to_playlist")
        /\ require_user_connection(last'.user)
        /\ 1 <= last'.fail_at
        /\ last'.fail_at <= (Len(last'.uris) + 99) \div 100) =>
       LET k == last'.fail_at
       IN  /\ last'.result = "HTTPError"
           /\ Len(http') = k
           /\ \A j \in 1..k :
                /\ IsAddCall(http'[j], last'.playlist)
                /\ http'[j].uris =
                     SubSeq(last'.uris, 100 * (j - 1) + 1,
                            IF 100 * j <= Len(last'.uris) THEN 100 * j
                            ELSE Len(last'.uris))
           /\ remote' = AddedTo(remote, last'.playlist,
                                SubSeq(last'.uris, 1, 100 * (k - 1)))]_vars

\* the second of three chunks failed: the first is on the playlist, the
\* third was not sent
C17_Witness ==
  /\ last.op = "add_tracks_to_playlist" /\ last.result = "HTTPError"
  /\ last.fail_at = 2 /\ Len(last.uris) > 200 /\ Len(http) = 2
  /\ RemoteTracksOf(remote, last.playlist) = SubSeq(last.uris, 1, 100)

(***************************************************************************)
(* C18: every user-authorized catalog operation (user info, list, get and  *)
(* create playlist, add tracks, reorder, play, pause) invoked for a user   *)
(* who has no credential for the provider fails with a not-connected error *)
(* before any remote request is made, and is never retried.                *)
(***************************************************************************)
UserOperations ==
  {"get_user_information", "get_user_playlists", "get_user_playlist",
   "create_playlist", "add_tracks_to_playlist", "reorder_playlist_tracks",
   "play_user_playlist", "pause_playback"}

C18_NotConnectedFailsFirst ==
  [][(last'.op \in UserOperations /\ last'.user.spotify = "none") =>
       /\ last'.result = "ValueError"
       /\ http' = <<>>
       /\ remote' = remote]_vars

\* a push of uris for a user without a connection was refused
C18_Witness ==
  /\ last.op = "add_tracks_to_playlist" /\ last.user.spotify = "none"
  /\ last.result = "ValueError" /\ Len(last.uris) > 0 /\ http = <<>>

(***************************************************************************)
(* C19: when a /callback request carrying a code arrives and the token     *)
(* exchange answers HTTP 200, the parsed tokens are stored, the browser is *)
(* answered 200, shutdown of the listener is signalled, and the blocked    *)
(* get_auth_tokens caller eventually returns exactly those tokens.         *)
(***************************************************************************)
ExchangeAnswered(status_codes) ==
  last.op = "exchange" /\ last.status_code \in status_codes

C19_SuccessfulCallbackCompletes ==
  /\ [][(ExchangeAnswered({200})' /\ last' # last) =>
          /\ oauth'.auth_tokens = last'.tokens
          /\ last'.response = "200 Authentication successful!"
          /\ oauth'.shutdown_threads = oauth.shutdown_threads + 1]_vars
  /\ \A tokens \in TokenValues :
       (ExchangeAnswered({200}) /\ last.tokens = tokens
          /\ oauth.caller = "joining")
         ~> (oauth.caller = "returned" /\ oauth.result = tokens)

(***************************************************************************)
(* C20: when the token exchange answers with a status other than 200, the  *)
(* browser receives a failure response, no tokens are stored, the listener *)
(* is not shut down, and a later callback with a valid code can still      *)
(* complete the flow successfully: the listener goes on taking requests    *)
(* (unless an earlier callback had signalled shutdown), and a later        *)
(* exchange that answers 200 brings the caller its tokens.                 *)
(***************************************************************************)
\* serve_forever is at the point where it takes the next request
Listening(o) ==
  o.server = "serving" /\ ~o.shutdown_request /\ o.handler = NoRequest

ShutdownSignalled(o) == o.shutdown_threads > 0 \/ o.shutdown_request

C20_FailedExchangeKeepsListening ==
  /\ [][(ExchangeAnswered(StatusCodes \ {200})' /\ last' # last) =>
          /\ last'.response = "400 Token request failed."
          /\ oauth'.auth_tokens = oauth.auth_tokens
          /\ oauth'.shutdown_threads = oauth.shutdown_threads
          /\ oauth'.shutdown_request = oauth.shutdown_request
          /\ oauth'.server = "serving"
          /\ oauth'.caller = "joining"
          /\ ~ShutdownSignalled(oauth) => Listening(oauth')]_vars
  /\ (ExchangeAnswered({200}) /\ last.rejected > 0
        /\ oauth.caller = "joining")
       ~> (oauth.caller = "returned" /\ oauth.result \in TokenValues)

\* the flow completed after the token endpoint had rejected a callback, with
\* the tokens of the later callback
C20_Witness ==
  /\ oauth.caller = "returned" /\ last.rejected > 0
  /\ ExchangeAnswered({200}) /\ oauth.result = last.tokens

(***************************************************************************)
(* C21: a request that carries no authorization code causes no state       *)
(* transition of the flow: a /callback without a code parameter is         *)
(* answered 400 and any other path is answered 200, and in both cases no   *)
(* token exchange is made, no tokens are stored and shutdown is not        *)
(* signalled.                                                              *)
(***************************************************************************)
\* a step in which the listener takes a request
RequestTaken == last'.op = "do_GET" /\ last' # last

C21_NoCodeNoTransition ==
  [][(RequestTaken /\ (last'.path # "/callback" \/ last'.code = NoCode)) =>
       /\ last'.response = IF last'.path = "/callback"
                           THEN "400 No code parameter found."
                           ELSE "200 OAuth2 authentication running."
       /\ oauth'.handler = NoRequest
       /\ oauth' = [oauth EXCEPT !.handled = oauth'.handled]]_vars

\* a /callback without a code was answered 400 while the caller waits
C21_Witness ==
  /\ last.op = "do_GET" /\ last.path = "/callback" /\ last.code = NoCode
  /\ last.response = "400 No code parameter found."
  /\ oauth.caller = "joining" /\ oauth.auth_tokens = "None"
  /\ ~ShutdownSignalled(oauth)

(***************************************************************************)
(* C22: a flow that never receives a successful callback does not block    *)
(* its caller forever: get_auth_tokens eventually returns control with a   *)
(* timeout failure, and the listener is shut down.  So every caller that   *)
(* waits is eventually handed tokens (a callback succeeded) or a failure   *)
(* with the listener stopped.                                              *)
(***************************************************************************)
C22_CallerNeverBlocksForever ==
  (oauth.caller = "joining")
    ~> \/ oauth.caller = "returned"
       \/ oauth.caller = "raised" /\ oauth.server = "stopped"

(***************************************************************************)
(* C23: shutdown of the listener is triggered exactly once per flow, even  *)
(* when several callback requests with valid codes arrive concurrently or  *)
(* in quick succession (several tabs, retries); the completion result is   *)
(* written at most once.                                                   *)
(***************************************************************************)
C23_ShutdownTriggeredOnce == last.accepted <= 1

(***************************************************************************)
(* C24: the flow follows WAITING_FOR_CODE -> CODE_RECEIVED ->              *)
(* EXCHANGING_TOKEN -> {COMPLETE | FAILED}, and every terminal state       *)
(* returns control to the caller of get_auth_tokens: once an exchange has  *)
(* failed (rejected by the token endpoint, or a network error), the caller *)
(* is handed an error and does not stay blocked.                           *)
(***************************************************************************)
ExchangeFailed ==
  ExchangeAnswered(StatusCodes \ {200}) \/ last.op = "exchange_raised"

C24_FailedExchangeReturnsControl ==
  (ExchangeFailed /\ last.accepted = 0) ~> (oauth.caller # "joining")

(***************************************************************************)
(* C25: listeners on one port never overlap: at most one listener is bound *)
(* to a given port at any time, and when get_auth_tokens returns, the      *)
(* listener it started has stopped and released the port, so a later flow  *)
(* on the same port can bind and run.                                      *)
(***************************************************************************)
C25_PortReleasedOnReturn ==
  /\ oauth.server = "serving" => oauth.port = "bound"
  /\ oauth.caller \in {"returned", "raised"} =>
       /\ oauth.server # "serving"
       /\ oauth.port = "free"
       /\ oauth.result # "OSError"

(***************************************************************************)
(* C26: the session registry is safe under concurrent use: for any         *)
(* interleaving of create_session and get_session calls, every session     *)
(* whose creation completed is returned by get_session for its id, no      *)
(* created session is lost or replaced, and distinct creations get         *)
(* distinct ids.                                                           *)
(***************************************************************************)
C26_RegistrySafe ==
  /\ \A sid \in DOMAIN last.created :
       sid \in DOMAIN sessions /\ sessions[sid] = last.created[sid]
  /\ last.op = "get_session" =>
       last.result = IF last.sid \in DOMAIN sessions
                     THEN <<sessions[last.sid]>> ELSE <<>>
  /\ last.op = "create_session" =>
       \A t \in ThreadIds :
         threads[t].pc = "create_store" => threads[t].session_id # last.sid

\* two creations have completed with different sessions and one of them
\* was looked up afterwards
C26_Witness ==
  /\ Cardinality(DOMAIN last.created) = 2
  /\ last.op = "get_session" /\ last.result # <<>>
  /\ sessions[1] # sessions[2]

(***************************************************************************)
(* C27: the function bridge runs a provider method only when the requested *)
(* name is one of the declared function schemas; any other name is         *)
(* rejected with an error before any provider method or user lookup runs,  *)
(* and no attribute lookup on the provider fails.                          *)
(***************************************************************************)
C27_BridgeOnlyDeclared ==
  /\ last.invoked # "None" =>
       /\ last.function_name \in FunctionSchemas
       /\ last.invoked = last.function_name
  /\ (/\ last.function_name # "None"
      /\ last.function_name \notin FunctionSchemas) =>
       /\ last.result = "ValueError: Unknown function"
       /\ last.lookups = <<>>
       /\ last.attribute = "None"
       /\ last.invoked = "None"
  /\ last.result # "AttributeError"

\* a provider method that has no schema was asked for on behalf of a
\* registered user, and rejected
C27_Witness ==
  /\ last.function_name = "create_playlist"
  /\ last.username \in users
  /\ last.result = "ValueError: Unknown function"

(***************************************************************************)
(* C28: a track request, a vote or a removal on one session never changes  *)
(* another session's queue, vote sets or positions; the sessions share     *)
(* nothing but the registry map, which keeps its keys.                     *)
(***************************************************************************)
C28_OtherSessionsUntouched ==
  [][/\ DOMAIN sessions' = DOMAIN sessions
     /\ \A s \in DOMAIN sessions : s # last'.sid => sessions'[s] = sessions[s]
     /\ remote' = remote]_vars

\* session 1 was emptied by a removal while session 2 holds a queue
C28_Witness ==
  /\ last.op = "remove_track" /\ last.sid = 1 /\ last.changed
  /\ sessions[1].queue = <<>>
  /\ Len(sessions[2].queue) = PairMaxLen

(***************************************************************************)
(* C29: add_track_request, remove_track and get_queue called with a        *)
(* session id that is not in the registry return False, False and the      *)
(* empty list, without consulting the arbiter, without a remote call and   *)
(* without changing any session or the registry.                           *)
(***************************************************************************)
C29_UnknownSessionReported ==
  [][(/\ last' # last
      /\ last'.op \in {"add_track_request", "remove_track", "get_queue"}
      /\ last'.sid \notin DOMAIN sessions) =>
       /\ IF last'.op = "get_queue"
          THEN last'.queue = <<>>
          ELSE last'.result = "False"
       /\ last'.reply = NoReply
       /\ http' = <<>>
       /\ remote' = remote
       /\ sessions' = sessions]_vars

\* the queue of an id nobody was given was asked for while a session with
\* a queue exists
C29_Witness ==
  /\ last.op = "get_queue" /\ last.sid = UnknownSid
  /\ \E s \in DOMAIN sessions : sessions[s].queue # <<>>

====
